---------------------------- MODULE Spec2Model ----------------------------
(***************************************************************************)
(* Model of the reactive runtimes of reactive-explorations.                *)
(*                                                                         *)
(*   src/signals.ts        signals, memos and effects with the Updates /   *)
(*                         Effects queues                                  *)
(*   src/unnamed/part_000  the signal node with versions, the epoch and    *)
(*                         the dirty marking of live consumers             *)
(*                                                                         *)
(* The runtimes are single threaded and synchronous: every public call     *)
(* runs to completion, so one action is one top-level call, and the calls  *)
(* it makes (notifyObservers, runUpdates, updateComputation, the compute   *)
(* functions, the getters they call) are evaluated inside it by recursive  *)
(* operators over a record of the runtime's state.                         *)
(***************************************************************************)
EXTENDS Integers, Sequences, FiniteSets, TLC

(***************************************************************************)
(* Bounds of the model.                                                    *)
(***************************************************************************)
\* signals, memos and effects that a behaviour of Spec creates at most
MaxSignals == 2
MaxMemos == 2
MaxEffects == 1
\* signal values are 0 .. MaxValue
MaxValue == 1
\* getter calls in one compute function
MaxReads == 2

(***************************************************************************)
(* src/signals.ts                                                          *)
(***************************************************************************)
STALE == 1
CLEAN == 0

\* A SignalState's observers field is null until the first read tracks it
\* and an array (possibly empty after a splice) afterwards: notifyObservers
\* tells the two apart.  null is <<0>>; 0 is no computation.
Null == <<0>>

\* Computation.value before the first run, and the result of an effect body
Undefined == -1

Values == 0 .. MaxValue

\* options.equals: absent, or a comparator.  "same" is (a, b) => a === b.
Comparators == {"none", "same"}

Comparator(cmp, prev, next) == cmp = "same" /\ prev = next

VARIABLES
    kind,        \* node -> "signal" | "memo" | "effect": what create* call made
                 \*         it, "unreturned" if that call threw
    value,       \* SignalState.value      (signals and memos)
    observers,   \* SignalState.observers  (signals and memos)
    comparator,  \* SignalState.comparator (signals and memos)
    fn,          \* Computation.fn         (memos and effects), as a list of reads
    state,       \* Computation.state
    sources,     \* Computation.sources
    cvalue,      \* Computation.value
    Listener,    \* the running computation, 0 for null
    Updates,     \* queue of memo computations, <<>> for null
    Effects,     \* queue of effects, <<>> for null
    lastRead,    \* history: the getters the last run of a computation called
                 \*          outside untrack()
    seen,        \* history: what those getters returned to the last run
    everRead,    \* history: the getters any run of it called outside untrack()
    untracked,   \* history: the getters any run of it called inside untrack()
    trace,       \* history: the compute functions the last call started, in order
    thrown,      \* an exception is propagating; after a call: the call threw
    failed,      \* history: the runs the exception of the last call aborted,
                 \*          each with computation.value as it was before the run
    restored,    \* history: every untrack() and updateComputation() that the
                 \*          last call finished left Listener as it found it
    lastOp,      \* history: the last top-level call and what it returned
    \* src/unnamed/part_000, per node
    nodeValue,                  \* SignalNode.value
    equal,                      \* SignalNode.equal
    version,                    \* ReactiveNode.version
    dirty,                      \* ReactiveNode.dirty
    liveConsumerNode,           \* ReactiveNode.liveConsumerNode, <<>> for undefined
    consumerAllowSignalWrites,  \* ReactiveNode.consumerAllowSignalWrites
    \* src/unnamed/part_000, module level
    epoch,
    inNotificationPhase,
    activeConsumer,             \* the consumer that is running, 0 for null
    threw,                      \* history: the last call raised an error
    marked,                     \* history: the nodes the last call passed to
                                \*          consumerMarkDirty, in order
    \* src/index.ts
    ixKind,         \* node -> "signal" | "effect" | "memo"
    ixValue,        \* the variable `value` of createSignal (signals and memos)
    subscriptions,  \* the Set `subscriptions` of createSignal, in insertion order
    ixFn,           \* the fn of createEffect and createMemo, as statements
    dependencies,   \* RunningContext.dependencies, each Set named by its signal
    context,        \* the stack of running contexts
    ixThrown,       \* an exception is propagating; after a call: the call threw
    ixLastRead,     \* history: the getters called by the run of an effect
                    \*          that started last
    ixLastEnded,    \* history: the getters called by the run of an effect
                    \*          that ended last
    reentered,      \* history: execute() was called on a context on the stack
    balanced,       \* history: every execute() left the stack as it found it
    ixReads,        \* history: the getter calls of the last call's runs, each
                    \*          with what it returned and the values of that time
    ixTrace         \* history: the contexts whose execute() the last call entered

svars == <<kind, value, observers, comparator, fn, state, sources, cvalue,
           Listener, Updates, Effects, lastRead, seen, everRead, untracked, trace,
           thrown, failed, restored>>

gvars == <<nodeValue, equal, version, dirty, liveConsumerNode,
           consumerAllowSignalWrites, epoch, inNotificationPhase,
           activeConsumer, threw, marked>>

xvars == <<ixKind, ixValue, subscriptions, ixFn, dependencies, context,
           ixThrown, ixLastRead, ixLastEnded, reentered, balanced, ixReads,
           ixTrace>>

vars == <<svars, gvars, xvars, lastOp>>

\* The runtime as one record, for the operators that evaluate a call.
Runtime ==
    [kind |-> kind, value |-> value, observers |-> observers,
     comparator |-> comparator, fn |-> fn, state |-> state,
     sources |-> sources, cvalue |-> cvalue, Listener |-> Listener,
     Updates |-> Updates, Effects |-> Effects, lastRead |-> lastRead,
     seen |-> seen,
     everRead |-> everRead, untracked |-> untracked, trace |-> <<>>,
     thrown |-> FALSE, failed |-> {}, restored |-> TRUE]

Nodes(R) == 1 .. Len(R.kind)
Memos(R) == {n \in Nodes(R) : R.kind[n] = "memo"}
EffectsOf(R) == {n \in Nodes(R) : R.kind[n] = "effect"}
SignalsOf(R) == {n \in Nodes(R) : R.kind[n] = "signal"}

\* Computation.pure: createMemo passes true, createEffect leaves the default
Pure(R, c) == R.kind[c] = "memo"

\* Array.prototype.indexOf followed by splice(index, 1)
RECURSIVE RemoveFirst(_, _)
RemoveFirst(arr, x) ==
    IF arr = <<>> THEN <<>>
    ELSE IF Head(arr) = x THEN Tail(arr)
    ELSE <<Head(arr)>> \o RemoveFirst(Tail(arr), x)

Push(arr, x) == IF arr = Null THEN <<x>> ELSE Append(arr, x)

\* F(v), with v evaluated once
With(v, F(_)) == CHOOSE y \in {F(x) : x \in {v}} : TRUE

\* trackSignal(signal), called with Listener non-null
TrackSignal(R, signal) ==
    [R EXCEPT !.sources[R.Listener] = Append(@, signal),
              !.observers[signal] = Push(@, R.Listener)]

\* the loop of cleanupComputation over computation.sources[i..]
RECURSIVE CleanupFrom(_, _, _)
CleanupFrom(R0, computation, i) ==
    With(R0, LAMBDA R :
        IF i > Len(R.sources[computation]) THEN R
        ELSE LET source == R.sources[computation][i]
                 obs == R.observers[source]
             IN CleanupFrom(
                    [R EXCEPT !.observers[source] =
                        IF obs = Null THEN Null ELSE RemoveFirst(obs, computation)],
                    computation, i + 1))

\* mutant: the computation stays in the observers of its old sources
CleanupKeepsObservers(R, computation) ==
    [R EXCEPT !.sources[computation] = <<>>]

CleanupComputation(R, computation) ==
    [CleanupFrom(R, computation, 1) EXCEPT !.sources[computation] = <<>>]


(***************************************************************************)
(* Compute functions.  A compute function is a list of statements; each    *)
(* calls the getter of a signal or of a memo, directly or inside           *)
(* untrack(), calls a setter, or throws, always or on one branch of a test *)
(* of the first value read.  The function returns the sum of what it read, *)
(* modulo MaxValue + 1.                                                    *)
(***************************************************************************)
Step(m, n, c) == [m |-> m, n |-> n, c |-> c]

\* does the branch of step s run, the first value read being `first`
Taken(s, first) ==
    \/ s.c = "any"
    \/ s.c = "then" /\ first # 0
    \/ s.c = "else" /\ first = 0

Combine(acc, v) == (acc + v) % (MaxValue + 1)

RECURSIVE ReadNode(_, _), MemoRead(_, _), UpdateComputation(_, _),
          RunSteps(_, _, _, _, _), NotifyObservers(_, _), RunUpdates(_),
          RunQueue(_, _, _), SignalWrite(_, _, _)

\* createSignal.read
SignalRead(R, s) ==
    With(IF R.Listener # 0 THEN TrackSignal(R, s) ELSE R,
         LAMBDA R1 : [st |-> R1, ret |-> R1.value[s]])

\* the loop of notifyObservers over signal.observers[i..]
RECURSIVE MarkFrom(_, _, _)
MarkFrom(R0, obs, i) ==
    With(R0, LAMBDA R :
        IF i > Len(obs) THEN R
        ELSE LET observer == obs[i]
             IN IF R.state[observer] # STALE
                THEN MarkFrom(
                        IF Pure(R, observer)
                        THEN [R EXCEPT !.state[observer] = STALE,
                                       !.Updates = Append(@, observer)]
                        ELSE [R EXCEPT !.state[observer] = STALE,
                                       !.Effects = Append(@, observer)],
                        obs, i + 1)
                ELSE MarkFrom(R, obs, i + 1))

NotifyObservers(R0, signal) ==
    With(R0, LAMBDA R :
        IF R.observers[signal] = Null THEN R
        ELSE RunUpdates(MarkFrom(R, R.observers[signal], 1)))

\* the loops of runUpdates over computations[i..] and effects[i..]; an
\* exception leaves the loop
RunQueue(R0, queue, i) ==
    With(R0, LAMBDA R :
        IF i > Len(queue) THEN R
        ELSE IF R.state[queue[i]] = STALE
             THEN With(UpdateComputation(R, queue[i]), LAMBDA R1 :
                      IF R1.thrown THEN R1 ELSE RunQueue(R1, queue, i + 1))
             ELSE RunQueue(R, queue, i + 1))

RunUpdates(R0) ==
    With(R0, LAMBDA R :
        With(IF R.Updates # <<>>
             THEN RunQueue([R EXCEPT !.Updates = <<>>], R.Updates, 1)
             ELSE R,
             LAMBDA R1 :
                 IF R1.thrown THEN R1
                 ELSE IF R1.Effects # <<>>
                      THEN RunQueue([R1 EXCEPT !.Effects = <<>>], R1.Effects, 1)
                      ELSE R1))

\* what createMemo.read does once trackSignal has left the runtime R1
MemoUpdate(R1, m) ==
    IF R1.state[m] # STALE THEN R1
    ELSE With(UpdateComputation(R1, m), LAMBDA R2 :
             IF R2.thrown THEN R2
             ELSE IF ~Comparator(R2.comparator[m], R2.value[m], R2.cvalue[m])
                  THEN NotifyObservers([R2 EXCEPT !.value[m] = R2.cvalue[m]], m)
                  ELSE R2)

\* createMemo.read
MemoRead(R, m) ==
    With(IF R.Listener # 0 THEN TrackSignal(R, m) ELSE R, LAMBDA R1 :
        With(MemoUpdate(R1, m), LAMBDA R4 : [st |-> R4, ret |-> R4.value[m]]))

\* a call of the getter of node n
ReadNode(R, n) ==
    IF R.kind[n] = "memo" THEN MemoRead(R, n) ELSE SignalRead(R, n)

\* history: a call that found Listener = entry returns or throws
Exit(R0, entry) ==
    With(R0, LAMBDA R : [R EXCEPT !.restored = @ /\ R.Listener = entry])

\* mutant: untrack() leaves Listener as it is
UntrackKeepsListener(R, n) == ReadNode(R, n)

\* untrack(() => getter of n)
Untrack(R0, n) ==
    With(R0, LAMBDA R :
        With(ReadNode([R EXCEPT !.Listener = 0], n), LAMBDA r :
            [st |-> Exit([r.st EXCEPT !.Listener = R.Listener], R.Listener),
             ret |-> r.ret]))

\* history: the compute function of c calls the getter of step s
Noted(R, c, s) ==
    IF s.m = "untrack"
    THEN [R EXCEPT !.untracked[c] = @ \cup {s.n}]
    ELSE IF s.m = "read"
    THEN [R EXCEPT !.lastRead[c] = @ \cup {s.n}, !.everRead[c] = @ \cup {s.n}]
    ELSE R

\* history: the getter of step s has returned ret to the compute function of c
Seen(R, c, s, ret) ==
    IF s.m = "read" THEN [R EXCEPT !.seen[c] = @ \cup {<<s.n, ret>>}] ELSE R

\* one statement of a compute function: a getter call, a getter call inside
\* untrack(), a setter call with one more than the sum read so far, or a throw
Call(R, s, acc) ==
    CASE s.m = "untrack" -> Untrack(R, s.n)
      [] s.m = "write" -> [st |-> SignalWrite(R, s.n, Combine(acc, 1)), ret |-> 0]
      [] s.m = "throw" -> [st |-> [R EXCEPT !.thrown = TRUE], ret |-> 0]
      [] OTHER -> ReadNode(R, s.n)

\* computation.fn(), from its i-th statement on
RunSteps(R0, c, i, first, acc) ==
    With(R0, LAMBDA R :
        IF i > Len(R.fn[c]) THEN [st |-> R, ret |-> acc]
        ELSE LET s == R.fn[c][i]
             IN IF ~Taken(s, first) THEN RunSteps(R, c, i + 1, first, acc)
                ELSE With(Call(Noted(R, c, s), s, acc), LAMBDA r :
                         IF r.st.thrown THEN [st |-> r.st, ret |-> acc]
                         ELSE RunSteps(Seen(r.st, c, s, r.ret), c, i + 1,
                                       IF i = 1 THEN r.ret ELSE first,
                                       Combine(acc, r.ret))))

\* history: computation c starts its compute function in runtime R
Started(R, c) ==
    [c |-> c, stale |-> {m \in Memos(R) : m # c /\ R.state[m] = STALE}]

\* history: the run of computation c, entered with computation.value = v,
\* ends in an exception
Failed(R, c, v) == [R EXCEPT !.failed = @ \cup {[c |-> c, value |-> v]}]

\* updateComputation up to the call of computation.fn(), and that call
RunFn(R, computation) ==
    With(CleanupComputation([R EXCEPT !.Listener = computation], computation),
         LAMBDA R1 :
             RunSteps([R1 EXCEPT !.trace = Append(@, Started(R1, computation)),
                                 !.lastRead[computation] = {},
                                 !.seen[computation] = {}],
                      computation, 1, 0, 0))

\* mutant: computation.state = CLEAN is in the finally block
UpdateComputationCleanInFinally(R0, computation) ==
    With(R0, LAMBDA R :
        With(RunFn(R, computation), LAMBDA r :
            IF r.st.thrown
            THEN Exit(Failed([r.st EXCEPT !.state[computation] = CLEAN,
                                          !.Listener = R.Listener],
                             computation, R.cvalue[computation]),
                      R.Listener)
            ELSE Exit([r.st EXCEPT !.cvalue[computation] =
                                       IF Pure(R, computation) THEN r.ret
                                       ELSE Undefined,
                                   !.state[computation] = CLEAN,
                                   !.Listener = R.Listener],
                      R.Listener)))

\* mutant: Listener = prevListener follows fn() without try / finally
UpdateComputationWithoutFinally(R0, computation) ==
    With(R0, LAMBDA R :
        With(RunFn(R, computation), LAMBDA r :
            IF r.st.thrown
            THEN Exit(Failed(r.st, computation, R.cvalue[computation]), R.Listener)
            ELSE Exit([r.st EXCEPT !.cvalue[computation] =
                                       IF Pure(R, computation) THEN r.ret
                                       ELSE Undefined,
                                   !.state[computation] = CLEAN,
                                   !.Listener = R.Listener],
                      R.Listener)))

\* updateComputation(computation); R.Listener is prevListener
UpdateComputation(R0, computation) ==
    With(R0, LAMBDA R :
        With(RunFn(R, computation), LAMBDA r :
            IF r.st.thrown
            THEN Exit(Failed([r.st EXCEPT !.Listener = R.Listener], computation,
                             R.cvalue[computation]),
                      R.Listener)
            ELSE Exit([r.st EXCEPT !.cvalue[computation] =
                                       IF Pure(R, computation) THEN r.ret
                                       ELSE Undefined,
                                   !.state[computation] = CLEAN,
                                   !.Listener = R.Listener],
                      R.Listener)))

\* createSignal.write
SignalWrite(R0, s, nextValue) ==
    With(R0, LAMBDA R :
        IF ~Comparator(R.comparator[s], R.value[s], nextValue)
        THEN NotifyObservers([R EXCEPT !.value[s] = nextValue], s)
        ELSE R)


(***************************************************************************)
(* Top-level calls of src/signals.ts, made while no computation runs.      *)
(***************************************************************************)
\* the nodes that have a getter
Readable(R) == SignalsOf(R) \cup Memos(R)

SeqsUpTo(S, n) == UNION {[1 .. k -> S] : k \in 1 .. n}

\* the nodes whose getters the compute function f names
Named(f) == {f[i].n : i \in DOMAIN f}

\* compute functions that call up to MaxReads different getters, in a fixed
\* order
TrackedFns(R) ==
    {f \in SeqsUpTo({Step("read", n, "any") : n \in Readable(R)}, MaxReads) :
        \A i \in DOMAIN f, j \in DOMAIN f : i < j => f[i].n < f[j].n}

\* a getter call, outside or inside untrack()
Calls(R) == {Step(m, n, "any") : m \in {"read", "untrack"}, n \in Readable(R)}

\* compute functions x and x + y, where x and y are calls outside or inside
\* untrack(): of two nodes in the order of their numbers, or of one node
\* outside and then inside untrack()
UntrackFns(R) ==
    {<<x>> : x \in Calls(R)}
        \cup {f \in {<<x, y>> : x \in Calls(R), y \in Calls(R)} :
                 \/ f[1].n < f[2].n
                 \/ f[1].n = f[2].n /\ f[1].m = "read" /\ f[2].m = "untrack"}

\* flag() ? a() : b(), where flag is a signal and a comes before b in the
\* order of the node numbers
BranchFns(R) ==
    LET Arms(flag) ==
            {ab \in (Readable(R) \ {flag}) \X (Readable(R) \ {flag}) : ab[1] < ab[2]}
    IN UNION {{<<Step("read", flag, "any"), Step("read", ab[1], "then"),
                 Step("read", ab[2], "else")>> : ab \in Arms(flag)} :
                  flag \in SignalsOf(R)}

\* compute functions x, and x followed by a throw if x is not 0, where x is
\* a call outside or inside untrack()
ThrowFns(R) ==
    {<<x>> : x \in Calls(R)}
        \cup {<<x, Step("throw", 0, "then")>> : x \in Calls(R)}

Op(op, n, v, ret) == [op |-> op, n |-> n, v |-> v, ret |-> ret]

\* the variables take the fields of the runtime a call leaves behind (the
\* record is bound once, so the call is evaluated once)
Becomes(after) ==
    \E R \in {after} :
        /\ kind' = R.kind
        /\ value' = R.value
        /\ observers' = R.observers
        /\ comparator' = R.comparator
        /\ fn' = R.fn
        /\ state' = R.state
        /\ sources' = R.sources
        /\ cvalue' = R.cvalue
        /\ Listener' = R.Listener
        /\ Updates' = R.Updates
        /\ Effects' = R.Effects
        /\ lastRead' = R.lastRead
        /\ seen' = R.seen
        /\ everRead' = R.everRead
        /\ untracked' = R.untracked
        /\ trace' = R.trace
        /\ thrown' = R.thrown
        /\ failed' = R.failed
        /\ restored' = R.restored

\* the variables hold the fields of the runtime R
Holds(R) ==
    /\ kind = R.kind
    /\ value = R.value
    /\ observers = R.observers
    /\ comparator = R.comparator
    /\ fn = R.fn
    /\ state = R.state
    /\ sources = R.sources
    /\ cvalue = R.cvalue
    /\ Listener = R.Listener
    /\ Updates = R.Updates
    /\ Effects = R.Effects
    /\ lastRead = R.lastRead
    /\ seen = R.seen
    /\ everRead = R.everRead
    /\ untracked = R.untracked
    /\ trace = R.trace
    /\ thrown = R.thrown
    /\ failed = R.failed
    /\ restored = R.restored

\* a node record appended to every per-node field
NewNode(R, k, v, cmp, f, st) ==
    [R EXCEPT !.kind = Append(@, k),
              !.value = Append(@, v),
              !.observers = Append(@, Null),
              !.comparator = Append(@, cmp),
              !.fn = Append(@, f),
              !.state = Append(@, st),
              !.sources = Append(@, <<>>),
              !.cvalue = Append(@, Undefined),
              !.lastRead = Append(@, {}),
              !.seen = Append(@, {}),
              !.everRead = Append(@, {}),
              !.untracked = Append(@, {})]

\* the runtime of src/signals.ts when the module has loaded: Listener,
\* Updates and Effects are null and there is no node
Loaded ==
    [kind |-> <<>>, value |-> <<>>, observers |-> <<>>, comparator |-> <<>>,
     fn |-> <<>>, state |-> <<>>, sources |-> <<>>, cvalue |-> <<>>,
     Listener |-> 0, Updates |-> <<>>, Effects |-> <<>>, lastRead |-> <<>>,
     seen |-> <<>>,
     everRead |-> <<>>, untracked |-> <<>>, trace |-> <<>>,
     thrown |-> FALSE, failed |-> {}, restored |-> TRUE]

\* createSignal(initialValue, {equals}) called on the runtime R
WithSignal(R, initialValue, equals) ==
    NewNode(R, "signal", initialValue, equals, <<>>, CLEAN)

\* the action of createSignal(initialValue, {equals})
CreateSignal(initialValue, equals) ==
    /\ Becomes(WithSignal(Runtime, initialValue, equals))
    /\ lastOp' = Op("createSignal", Len(kind) + 1, initialValue, Undefined)
    /\ UNCHANGED <<gvars, xvars>>

\* createComputation(fn, pure).  Owner is null at every call: nothing in the
\* file assigns it, so no computation is registered in an owned list.
CreateComputation(R, k, f) ==
    UpdateComputation(NewNode(R, k, Undefined, "none", f, STALE), Len(R.kind) + 1)

\* createComputation threw out of createMemo or createEffect: the
\* computation has no getter and is in no queue, but it stays in the
\* observers of what it read
Unreturned(R, computation) == [R EXCEPT !.kind[computation] = "unreturned"]

\* createMemo(fn, {equals})
CreateMemo(f, equals) ==
    LET computation == Len(kind) + 1
        R1 == CreateComputation(Runtime, "memo", f)
        R2 == [R1 EXCEPT !.value[computation] = R1.cvalue[computation],
                         !.comparator[computation] = equals]
        r == MemoRead(R2, computation)
    IN /\ Becomes(IF R1.thrown THEN Unreturned(R1, computation) ELSE r.st)
       /\ lastOp' = Op("createMemo", computation, Undefined, Undefined)
       /\ UNCHANGED <<gvars, xvars>>

\* createEffect(fn)
CreateEffect(f) ==
    LET computation == Len(kind) + 1
        R1 == CreateComputation(Runtime, "effect", f)
    IN /\ Becomes(IF R1.thrown THEN Unreturned(R1, computation)
                  ELSE [R1 EXCEPT !.Effects = Append(@, computation)])
       /\ lastOp' = Op("createEffect", computation, Undefined, Undefined)
       /\ UNCHANGED <<gvars, xvars>>

\* the setter of signal s
Write(s, nextValue) ==
    /\ s \in SignalsOf(Runtime)
    /\ Becomes(SignalWrite(Runtime, s, nextValue))
    /\ lastOp' = Op("write", s, nextValue, Undefined)
    /\ UNCHANGED <<gvars, xvars>>

\* the getter of memo m
Read(m) ==
    /\ m \in Memos(Runtime)
    /\ LET r == MemoRead(Runtime, m)
       IN /\ Becomes(r.st)
          /\ lastOp' = Op("read", m, Undefined, r.ret)
          /\ UNCHANGED <<gvars, xvars>>

(***************************************************************************)
(* src/index.ts                                                            *)
(*                                                                         *)
(* A RunningContext is named by its node; a memo is one node that is both  *)
(* the signal and the effect that createMemo makes.  A Set of running      *)
(* contexts keeps its insertion order, which write() iterates.             *)
(***************************************************************************)
\* the depth of nested execute() calls at which the engine's call stack is
\* exhausted and the call throws a RangeError
StackLimit == 3

\* The runtime as one record, for the operators that evaluate a call.
Index ==
    [kind |-> ixKind, value |-> ixValue, subscriptions |-> subscriptions,
     fn |-> ixFn, dependencies |-> dependencies, context |-> context,
     lastRead |-> ixLastRead, lastEnded |-> ixLastEnded,
     reading |-> <<>>, thrown |-> FALSE,
     reentered |-> FALSE,
     balanced |-> TRUE, reads |-> <<>>, trace |-> <<>>]

\* Set.prototype.add on a Set kept in insertion order
SetAdd(set, x) == IF \E i \in DOMAIN set : set[i] = x THEN set ELSE Append(set, x)

\* Set.prototype.delete
SetDelete(set, x) == SelectSeq(set, LAMBDA y : y # x)

\* subscribe(running, subscriptions), the Set being that of signal s
Subscribe(X, running, s) ==
    [X EXCEPT !.subscriptions[s] = SetAdd(@, running),
              !.dependencies[running] = @ \cup {s}]

\* createSignal.read
IndexRead(X, s) ==
    LET running == IF X.context = <<>> THEN 0 ELSE X.context[Len(X.context)]
        X1 == IF running # 0 THEN Subscribe(X, running, s) ELSE X
    IN [st |-> X1, ret |-> X1.value[s]]

\* the loop of cleanup over running.dependencies
RECURSIVE DeleteFrom(_, _, _)
DeleteFrom(subs, deps, running) ==
    IF deps = {} THEN subs
    ELSE LET dep == CHOOSE d \in deps : TRUE
         IN DeleteFrom([subs EXCEPT ![dep] = SetDelete(@, running)],
                       deps \ {dep}, running)

\* cleanup(running)
Cleanup(X, running) ==
    [X EXCEPT !.subscriptions = DeleteFrom(@, X.dependencies[running], running),
              !.dependencies[running] = {}]

RECURSIVE IndexWrite(_, _, _), ExecuteFrom(_, _, _), Execute(_, _),
          IndexSteps(_, _, _, _, _)

\* the loop of write over the copy [...subscriptions], from its i-th entry
ExecuteFrom(X, subs, i) ==
    IF i > Len(subs) THEN X
    ELSE LET X1 == Execute(X, subs[i])
         IN IF X1.thrown THEN X1 ELSE ExecuteFrom(X1, subs, i + 1)

\* createSignal.write
IndexWrite(X, s, nextValue) ==
    ExecuteFrom([X EXCEPT !.value[s] = nextValue], X.subscriptions[s], 1)

\* history: running calls the getter of n, which returns ret
Observed(X, running, n, ret) ==
    [X EXCEPT !.reading[Len(X.reading)] = @ \cup {n},
              !.reads = Append(@, [e |-> running, n |-> n, ret |-> ret,
                                   value |-> X.value])]

\* one statement of fn: a getter call, a setter call with one more than the
\* sum read so far, or a throw
IndexCall(X, running, s, acc) ==
    CASE s.m = "write" -> [st |-> IndexWrite(X, s.n, Combine(acc, 1)), ret |-> 0]
      [] s.m = "throw" -> [st |-> [X EXCEPT !.thrown = TRUE], ret |-> 0]
      [] OTHER -> LET r == IndexRead(X, s.n)
                  IN [st |-> Observed(r.st, running, s.n, r.ret), ret |-> r.ret]

\* fn(), from its i-th statement on
IndexSteps(X, running, i, first, acc) ==
    IF i > Len(X.fn[running]) THEN [st |-> X, ret |-> acc]
    ELSE LET s == X.fn[running][i]
         IN IF ~Taken(s, first) THEN IndexSteps(X, running, i + 1, first, acc)
            ELSE LET r == IndexCall(X, running, s, acc)
                 IN IF r.st.thrown THEN [st |-> r.st, ret |-> acc]
                    ELSE IndexSteps(r.st, running, i + 1,
                                    IF i = 1 THEN r.ret ELSE first,
                                    Combine(acc, r.ret))

\* the body that createEffect is given: fn, and for a memo () => set(fn())
Body(X, running) ==
    LET r == IndexSteps(X, running, 1, 0, 0)
    IN IF r.st.thrown \/ X.kind[running] # "memo" THEN r.st
       ELSE IndexWrite(r.st, running, r.ret)

\* history: execute() of running is entered
Entered(X, running) ==
    [X EXCEPT !.trace = Append(@, running),
              !.reentered = @ \/ \E i \in DOMAIN X.context : X.context[i] = running,
              !.reading = Append(@, {})]

\* history: the execute() of running that found the stack `before` and was
\* the entered-th one of this call returns or throws
Left(X, running, before, entered) ==
    LET called == X.reading[Len(X.reading)]
        started == Cardinality({i \in DOMAIN X.trace : X.trace[i] = running})
    IN [X EXCEPT !.balanced = @ /\ X.context = before,
                 !.reading = SubSeq(@, 1, Len(@) - 1),
                 !.lastEnded[running] = called,
                 !.lastRead[running] = IF started = entered THEN called ELSE @]

\* running.execute()
Execute(X, running) ==
    IF Len(X.context) >= StackLimit THEN [X EXCEPT !.thrown = TRUE]
    ELSE LET X1 == Cleanup(Entered(X, running), running)
             X2 == Body([X1 EXCEPT !.context = Append(@, running)], running)
         IN Left([X2 EXCEPT !.context = SubSeq(@, 1, Len(@) - 1)], running,
                 X.context,
                 Cardinality({i \in DOMAIN X1.trace : X1.trace[i] = running}))

IndexBecomes(after) ==
    \E X \in {after} :
        /\ ixKind' = X.kind
        /\ ixValue' = X.value
        /\ subscriptions' = X.subscriptions
        /\ ixFn' = X.fn
        /\ dependencies' = X.dependencies
        /\ context' = X.context
        /\ ixThrown' = X.thrown
        /\ ixLastRead' = X.lastRead
        /\ ixLastEnded' = X.lastEnded
        /\ reentered' = X.reentered
        /\ balanced' = X.balanced
        /\ ixReads' = X.reads
        /\ ixTrace' = X.trace

\* a node appended to every per-node field
IndexNode(X, k, v, f) ==
    [X EXCEPT !.kind = Append(@, k),
              !.value = Append(@, v),
              !.subscriptions = Append(@, <<>>),
              !.fn = Append(@, f),
              !.dependencies = Append(@, {}),
              !.lastRead = Append(@, {}),
              !.lastEnded = Append(@, {})]

\* createSignal(value) called on the runtime X
IndexWithSignal(X, v) == IndexNode(X, "signal", v, <<>>)

\* the action of createSignal(value)
IndexCreateSignal(v) ==
    /\ IndexBecomes(IndexWithSignal(Index, v))
    /\ lastOp' = Op("createSignal", Len(ixKind) + 1, v, Undefined)
    /\ UNCHANGED <<svars, gvars>>

\* createEffect(fn)
IndexCreateEffect(f) ==
    /\ IndexBecomes(Execute(IndexNode(Index, "effect", Undefined, f), Len(ixKind) + 1))
    /\ lastOp' = Op("createEffect", Len(ixKind) + 1, Undefined, Undefined)
    /\ UNCHANGED <<svars, gvars>>

\* createMemo(fn)
IndexCreateMemo(f) ==
    /\ IndexBecomes(Execute(IndexNode(Index, "memo", Undefined, f), Len(ixKind) + 1))
    /\ lastOp' = Op("createMemo", Len(ixKind) + 1, Undefined, Undefined)
    /\ UNCHANGED <<svars, gvars>>

\* the setter of signal s, called while nothing runs
IndexSet(s, nextValue) ==
    /\ s \in DOMAIN ixKind /\ ixKind[s] = "signal"
    /\ IndexBecomes(IndexWrite(Index, s, nextValue))
    /\ lastOp' = Op("write", s, nextValue, Undefined)
    /\ UNCHANGED <<svars, gvars>>

\* src/index.ts has been loaded and no signal, effect or memo created
NoContexts ==
    /\ ixKind = <<>>
    /\ ixValue = <<>>
    /\ subscriptions = <<>>
    /\ ixFn = <<>>
    /\ dependencies = <<>>
    /\ context = <<>>
    /\ ixThrown = FALSE
    /\ ixLastRead = <<>>
    /\ ixLastEnded = <<>>
    /\ reentered = FALSE
    /\ balanced = TRUE
    /\ ixReads = <<>>
    /\ ixTrace = <<>>

\* no signal, memo or effect of src/signals.ts has been created
NoComputations ==
    /\ Holds(Loaded)
    /\ lastOp = Op("init", 0, Undefined, Undefined)

\* no node of src/unnamed/part_000 has been created
NoNodes ==
    /\ nodeValue = <<>>
    /\ equal = <<>>
    /\ version = <<>>
    /\ dirty = <<>>
    /\ liveConsumerNode = <<>>
    /\ consumerAllowSignalWrites = <<>>
    /\ epoch = 0
    /\ inNotificationPhase = FALSE
    /\ activeConsumer = 0
    /\ threw = FALSE
    /\ marked = <<>>

Init == NoComputations /\ NoNodes /\ NoContexts

\* how many nodes of kind k the runtime holds
Count(k) == Cardinality({n \in Nodes(Runtime) : kind[n] = k})

\* A program creates its signals before the computations that read them:
\* creating a signal touches no other node, so this fixes the numbering of
\* the nodes and nothing else.
NoComputation == Memos(Runtime) \cup EffectsOf(Runtime) = {}

\* Signals, memos and effects without comparators, reading in a fixed order.
Next ==
    \/ \E v \in Values :
          Count("signal") < MaxSignals /\ NoComputation /\ CreateSignal(v, "none")
    \/ \E f \in TrackedFns(Runtime) :
          Count("memo") < MaxMemos /\ CreateMemo(f, "none")
    \/ \E f \in TrackedFns(Runtime) :
          Count("effect") < MaxEffects /\ CreateEffect(f)
    \/ \E s \in Nodes(Runtime), v \in Values : Write(s, v)
    \/ \E m \in Nodes(Runtime) : Read(m)

Spec == Init /\ [][Next]_vars

(***************************************************************************)
(* Other programs over src/signals.ts, each with its own bounds.           *)
(***************************************************************************)
\* SpecBranch: a program that creates the signals flag, a and b, and then
\* memos of the shape flag() ? a() : b() over them and over each other
BranchMemos == 1

InitBranch ==
    /\ \E flag \in Values, a \in Values, b \in Values :
          /\ Holds(WithSignal(WithSignal(WithSignal(Loaded, flag, "none"),
                                         a, "none"), b, "none"))
          /\ lastOp = Op("createSignal", Len(kind), b, Undefined)
    /\ NoNodes /\ NoContexts

NextBranch ==
    \/ \E f \in BranchFns(Runtime) :
          Count("memo") < BranchMemos /\ CreateMemo(f, "none")
    \/ \E s \in Nodes(Runtime), v \in Values : Write(s, v)
    \/ \E m \in Nodes(Runtime) : Read(m)

SpecBranch == InitBranch /\ [][NextBranch]_vars

\* SpecUntrack: a program that creates two signals, and then memos and
\* effects that read them, and each other, outside and inside untrack()
UntrackComputations == 1

InitUntrack ==
    /\ \E a \in Values, b \in Values :
          /\ Holds(WithSignal(WithSignal(Loaded, a, "none"), b, "none"))
          /\ lastOp = Op("createSignal", Len(kind), b, Undefined)
    /\ NoNodes /\ NoContexts

NextUntrack ==
    \/ \E f \in UntrackFns(Runtime) :
          /\ Cardinality(Memos(Runtime) \cup EffectsOf(Runtime)) < UntrackComputations
          /\ CreateMemo(f, "none")
    \/ \E f \in UntrackFns(Runtime) :
          /\ Cardinality(Memos(Runtime) \cup EffectsOf(Runtime)) < UntrackComputations
          /\ CreateEffect(f)
    \/ \E s \in Nodes(Runtime), v \in Values : Write(s, v)
    \/ \E m \in Nodes(Runtime) : Read(m)

SpecUntrack == InitUntrack /\ [][NextUntrack]_vars

(***************************************************************************)
(* src/unnamed/part_000                                                    *)
(*                                                                         *)
(* The file holds the signal node, its setter and the dirty marking of     *)
(* live consumers.  What links consumers to producers and what sets the    *)
(* active consumer is not in it: the graph of live consumers is drawn by   *)
(* InitGraph, and SetActiveConsumer stands for entering and leaving a      *)
(* consumer's run.                                                         *)
(***************************************************************************)
\* signal nodes and consumer nodes of a graph
GraphSignals == 1
GraphConsumers == 1
\* node values are 0 .. MaxNodeValue
MaxNodeValue == 2
\* accepted writes in one behaviour
MaxEpoch == 1

NodeValues == 0 .. MaxNodeValue
SignalNodes == 1 .. GraphSignals
ConsumerNodes == (GraphSignals + 1) .. (GraphSignals + GraphConsumers)

\* defaultEquals: Object.is
DefaultEquals(a, b) == a = b

\* options.equal, a ValueEqualityFn: the default, or one that holds values of
\* the same parity equal
EqualFns == {"defaultEquals", "sameParity"}

Equal(eq, a, b) ==
    IF eq = "defaultEquals" THEN DefaultEquals(a, b) ELSE a % 2 = b % 2

Graph ==
    [value |-> nodeValue, equal |-> equal, version |-> version, dirty |-> dirty,
     liveConsumerNode |-> liveConsumerNode,
     consumerAllowSignalWrites |-> consumerAllowSignalWrites,
     epoch |-> epoch, inNotificationPhase |-> inNotificationPhase,
     activeConsumer |-> activeConsumer, threw |-> FALSE, marked |-> <<>>]

RECURSIVE ProducerNotifyConsumers(_, _), ConsumerMarkDirty(_, _), NotifyFrom(_, _, _)

\* the loop of producerNotifyConsumers over node.liveConsumerNode[i..]
NotifyFrom(G, consumers, i) ==
    IF i > Len(consumers) THEN G
    ELSE IF ~G.dirty[consumers[i]]
         THEN NotifyFrom(ConsumerMarkDirty(G, consumers[i]), consumers, i + 1)
         ELSE NotifyFrom(G, consumers, i + 1)

ProducerNotifyConsumers(G, node) ==
    IF G.liveConsumerNode[node] = <<>> THEN G
    ELSE LET prev == G.inNotificationPhase
             G1 == NotifyFrom([G EXCEPT !.inNotificationPhase = TRUE],
                              G.liveConsumerNode[node], 1)
         IN [G1 EXCEPT !.inNotificationPhase = prev]

\* mutant: consumerMarkDirty sets the flag and does not notify further
ConsumerMarkDirtyAlone(G, node) ==
    [G EXCEPT !.dirty[node] = TRUE, !.marked = Append(@, node)]

\* consumerMarkedDirty is the empty hook of REACTIVE_NODE
ConsumerMarkDirty(G, node) ==
    ProducerNotifyConsumers([G EXCEPT !.dirty[node] = TRUE,
                                      !.marked = Append(@, node)], node)

ProducerIncrementEpoch(G) == [G EXCEPT !.epoch = @ + 1]

\* postSignalSetFn is not set
SignalValueChanged(G, node) ==
    ProducerNotifyConsumers(
        ProducerIncrementEpoch([G EXCEPT !.version[node] = @ + 1]), node)

\* mutant: activeConsumer?.consumerAllowSignalWrites === true
ProducerUpdatesNeedConsumer(G) ==
    G.activeConsumer # 0 /\ G.consumerAllowSignalWrites[G.activeConsumer]

\* activeConsumer?.consumerAllowSignalWrites !== false
ProducerUpdatesAllowed(G) ==
    G.activeConsumer = 0 \/ G.consumerAllowSignalWrites[G.activeConsumer] # FALSE

\* throwInvalidWriteToSignalError(): the call does not return
ThrowInvalidWriteToSignalError(G) == [G EXCEPT !.threw = TRUE]

\* mutant: the setter does not ask node.equal
SignalSetFnAlways(G, node, newValue) ==
    IF ~ProducerUpdatesAllowed(G) THEN ThrowInvalidWriteToSignalError(G)
    ELSE SignalValueChanged([G EXCEPT !.value[node] = newValue], node)

SignalSetFn(G, node, newValue) ==
    IF ~ProducerUpdatesAllowed(G) THEN ThrowInvalidWriteToSignalError(G)
    ELSE IF ~Equal(G.equal[node], G.value[node], newValue)
         THEN SignalValueChanged([G EXCEPT !.value[node] = newValue], node)
         ELSE G

GraphBecomes(after) ==
    \E G \in {after} :
        /\ nodeValue' = G.value
        /\ equal' = G.equal
        /\ version' = G.version
        /\ dirty' = G.dirty
        /\ liveConsumerNode' = G.liveConsumerNode
        /\ consumerAllowSignalWrites' = G.consumerAllowSignalWrites
        /\ epoch' = G.epoch
        /\ inNotificationPhase' = G.inNotificationPhase
        /\ activeConsumer' = G.activeConsumer
        /\ threw' = G.threw
        /\ marked' = G.marked

\* signalFn.set(newValue)
SignalSet(node, newValue) ==
    /\ node \in DOMAIN nodeValue /\ node \in SignalNodes
    /\ epoch < MaxEpoch
    /\ GraphBecomes(SignalSetFn(Graph, node, newValue))
    /\ lastOp' = Op("signalSetFn", node, newValue, Undefined)
    /\ UNCHANGED <<svars, xvars>>

\* a consumer starts to run (c) or the running one returns (0)
SetActiveConsumer(c) ==
    /\ c \in {0} \cup (ConsumerNodes \cap DOMAIN dirty)
    /\ dirty # <<>>
    /\ c # activeConsumer
    /\ activeConsumer' = c
    /\ threw' = FALSE
    /\ marked' = <<>>
    /\ lastOp' = Op("setActiveConsumer", c, Undefined, Undefined)
    /\ UNCHANGED <<nodeValue, equal, version, dirty, liveConsumerNode,
                   consumerAllowSignalWrites, epoch, inNotificationPhase>>
    /\ UNCHANGED <<svars, xvars>>

\* the sets of consumers as arrays, in the order of the node numbers
RECURSIVE AsArray(_)
AsArray(S) ==
    IF S = {} THEN <<>>
    ELSE LET least == CHOOSE x \in S : \A y \in S : x <= y
         IN <<least>> \o AsArray(S \ {least})

\* GraphSignals signals and GraphConsumers consumers, nothing dirty, version
\* and epoch 0 as REACTIVE_NODE sets them, and any live-consumer edges from a
\* node to the consumers other than itself
InitGraph ==
    /\ nodeValue \in [SignalNodes \cup ConsumerNodes -> NodeValues \cup {Undefined}]
    /\ \A n \in SignalNodes : nodeValue[n] \in NodeValues
    /\ \A n \in ConsumerNodes : nodeValue[n] = Undefined
    /\ equal \in [SignalNodes \cup ConsumerNodes -> EqualFns]
    /\ \A n \in ConsumerNodes : equal[n] = "defaultEquals"
    /\ version = [n \in SignalNodes \cup ConsumerNodes |-> 0]
    /\ dirty = [n \in SignalNodes \cup ConsumerNodes |-> FALSE]
    /\ \E edges \in [SignalNodes \cup ConsumerNodes -> SUBSET ConsumerNodes] :
          /\ \A n \in ConsumerNodes : n \notin edges[n]
          /\ liveConsumerNode = [n \in SignalNodes \cup ConsumerNodes |-> AsArray(edges[n])]
    /\ consumerAllowSignalWrites \in [SignalNodes \cup ConsumerNodes -> BOOLEAN]
    /\ \A n \in SignalNodes : consumerAllowSignalWrites[n] = FALSE
    /\ epoch = 0
    /\ inNotificationPhase = FALSE
    /\ activeConsumer = 0
    /\ threw = FALSE
    /\ marked = <<>>

NextGraph ==
    \/ \E n \in SignalNodes, v \in NodeValues : SignalSet(n, v)
    \/ \E c \in {0} \cup ConsumerNodes : SetActiveConsumer(c)

\* SpecGraph: the signal nodes of src/unnamed/part_000
InitSpecGraph == NoComputations /\ InitGraph /\ NoContexts

SpecGraph == InitSpecGraph /\ [][NextGraph]_vars

\* SpecEquality: a signal with an equality function, of either file.  The
\* two files share nothing, and a behaviour runs one of them: a program that
\* creates a signal of src/signals.ts and then memos and effects over it, or
\* the setter of src/unnamed/part_000 on a graph.
EqualityComputations == 1

InitEquality ==
    \/ /\ \E initialValue \in Values, equals \in Comparators :
              /\ Holds(WithSignal(Loaded, initialValue, equals))
              /\ lastOp = Op("createSignal", Len(kind), initialValue, Undefined)
       /\ NoNodes /\ NoContexts
    \/ NoComputations /\ InitGraph /\ NoContexts

NextEquality ==
    \/ \E f \in TrackedFns(Runtime), equals \in Comparators :
          /\ Cardinality(Memos(Runtime) \cup EffectsOf(Runtime)) < EqualityComputations
          /\ kind # <<>>
          /\ CreateMemo(f, equals)
    \/ \E f \in TrackedFns(Runtime) :
          /\ Cardinality(Memos(Runtime) \cup EffectsOf(Runtime)) < EqualityComputations
          /\ kind # <<>>
          /\ CreateEffect(f)
    \/ \E s \in Nodes(Runtime), v \in Values : Write(s, v)
    \/ \E m \in Nodes(Runtime) : Read(m)
    \/ NextGraph

SpecEquality == InitEquality /\ [][NextEquality]_vars

(***************************************************************************)
(* Programs over src/index.ts.                                             *)
(***************************************************************************)
\* the nodes of src/index.ts that have a getter, and those that have a setter
IndexReadable(X) == {n \in DOMAIN X.kind : X.kind[n] \in {"signal", "memo"}}
IndexWritable(X) == {n \in DOMAIN X.kind : X.kind[n] = "signal"}

\* the functions given to createMemo: x() and x() + y()
IndexMemoFns(X) ==
    {<<Step("read", x, "any")>> : x \in IndexReadable(X)}
        \cup {<<Step("read", xy[1], "any"), Step("read", xy[2], "any")>> :
                 xy \in {p \in IndexReadable(X) \X IndexReadable(X) : p[1] < p[2]}}

\* the functions given to createEffect: x(); x() followed by y(), always or
\* if x() is not 0; x() followed by setY(x() + 1), always or if x() is 0;
\* x() followed by a throw if x() is not 0
IndexEffectFns(X) ==
    {<<Step("read", x, "any")>> : x \in IndexReadable(X)}
        \cup {<<Step("read", xy[1], "any"), Step("read", xy[2], c)>> :
                 xy \in {p \in IndexReadable(X) \X IndexReadable(X) : p[1] # p[2]},
                 c \in {"any", "then"}}
        \cup {<<Step("read", x, "any"), Step("write", y, c)>> :
                 x \in IndexReadable(X), y \in IndexWritable(X), c \in {"any", "else"}}
        \cup {<<Step("read", x, "any"), Step("throw", 0, "then")>> :
                 x \in IndexReadable(X)}

\* src/index.ts when the module has loaded
IndexLoaded ==
    [kind |-> <<>>, value |-> <<>>, subscriptions |-> <<>>, fn |-> <<>>,
     dependencies |-> <<>>, context |-> <<>>, lastRead |-> <<>>,
     lastEnded |-> <<>>, reading |-> <<>>,
     thrown |-> FALSE, reentered |-> FALSE, balanced |-> TRUE,
     reads |-> <<>>, trace |-> <<>>]

\* the variables hold the fields of the runtime X
IndexHolds(X) ==
    /\ ixKind = X.kind
    /\ ixValue = X.value
    /\ subscriptions = X.subscriptions
    /\ ixFn = X.fn
    /\ dependencies = X.dependencies
    /\ context = X.context
    /\ ixThrown = X.thrown
    /\ ixLastRead = X.lastRead
    /\ ixLastEnded = X.lastEnded
    /\ reentered = X.reentered
    /\ balanced = X.balanced
    /\ ixReads = X.reads
    /\ ixTrace = X.trace

\* the effects and memos of src/index.ts
Contexts == {n \in DOMAIN ixKind : ixKind[n] \in {"effect", "memo"}}

\* SpecIndex: a program that creates two signals, and then memos and effects
\* over them and over each other
IndexContexts == 2

InitIndex ==
    /\ \E a \in Values, b \in Values :
          /\ IndexHolds(IndexWithSignal(IndexWithSignal(IndexLoaded, a), b))
          /\ lastOp = Op("createSignal", Len(ixKind), b, Undefined)
    /\ Holds(Loaded) /\ NoNodes

NextIndex ==
    \/ \E f \in IndexEffectFns(Index) :
          Cardinality(Contexts) < IndexContexts /\ IndexCreateEffect(f)
    \/ \E f \in IndexMemoFns(Index) :
          Cardinality(Contexts) < IndexContexts /\ IndexCreateMemo(f)
    \/ \E s \in DOMAIN ixKind, v \in Values : IndexSet(s, v)

SpecIndex == InitIndex /\ [][NextIndex]_vars

\* SpecThrow: a program over src/signals.ts that creates two signals, and
\* then memos and effects whose functions may throw
ThrowComputations == 1

InitThrow ==
    /\ \E a \in Values, b \in Values :
          /\ Holds(WithSignal(WithSignal(Loaded, a, "none"), b, "none"))
          /\ lastOp = Op("createSignal", Len(kind), b, Undefined)
    /\ NoNodes /\ NoContexts

NextThrow ==
    \/ \E f \in ThrowFns(Runtime) :
          /\ kind # <<>>
          /\ Cardinality(DOMAIN kind \ SignalsOf(Runtime)) < ThrowComputations
          /\ CreateMemo(f, "none")
    \/ \E f \in ThrowFns(Runtime) :
          /\ kind # <<>>
          /\ Cardinality(DOMAIN kind \ SignalsOf(Runtime)) < ThrowComputations
          /\ CreateEffect(f)
    \/ \E s \in Nodes(Runtime), v \in Values : Write(s, v)
    \/ \E m \in Nodes(Runtime) : Read(m)

SpecThrow == InitThrow /\ [][NextThrow]_vars

\* SpecNotify: producerNotifyConsumers called on any node of a graph of
\* MaxNotifyNodes nodes, each with any of the other nodes as live consumers
\* (chains, diamonds and cycles included), no node dirty at first.
MaxNotifyNodes == 3

NotifyNodes == 1 .. MaxNotifyNodes

InitNotify ==
    /\ NoComputations /\ NoContexts
    /\ nodeValue = [n \in NotifyNodes |-> Undefined]
    /\ equal = [n \in NotifyNodes |-> "defaultEquals"]
    /\ version = [n \in NotifyNodes |-> 0]
    /\ dirty = [n \in NotifyNodes |-> FALSE]
    /\ \E edges \in [NotifyNodes -> SUBSET NotifyNodes] :
          /\ \A n \in NotifyNodes : n \notin edges[n]
          /\ liveConsumerNode = [n \in NotifyNodes |-> AsArray(edges[n])]
    /\ consumerAllowSignalWrites = [n \in NotifyNodes |-> FALSE]
    /\ epoch = 0
    /\ inNotificationPhase = FALSE
    /\ activeConsumer = 0
    /\ threw = FALSE
    /\ marked = <<>>

\* producerNotifyConsumers(node), called from outside
ProducerNotify(node) ==
    /\ node \in DOMAIN dirty
    /\ GraphBecomes(ProducerNotifyConsumers(Graph, node))
    /\ lastOp' = Op("producerNotifyConsumers", node, Undefined, Undefined)
    /\ UNCHANGED <<svars, xvars>>

NextNotify == \E n \in NotifyNodes : ProducerNotify(n)

SpecNotify == InitNotify /\ [][NextNotify]_vars

\* SpecEdges: a program over src/index.ts that creates three signals and then
\* memos and effects, among them effects that read other signals after a
\* write than before it.
EdgeContexts == 1

\* the functions of IndexEffectFns, and
\*   if (x() === 0) { setX(x() + 1); z() } else { y() }
EdgeFns(X) ==
    IndexEffectFns(X)
        \cup {<<Step("read", p[1], "any"), Step("write", p[1], "else"),
                Step("read", p[3], "else"), Step("read", p[2], "then")>> :
                 p \in {q \in IndexWritable(X) \X IndexReadable(X) \X IndexReadable(X) :
                           q[2] < q[3] /\ q[1] \notin {q[2], q[3]}}}

InitEdges ==
    /\ \E a \in Values, b \in Values, c \in Values :
          /\ IndexHolds(IndexWithSignal(
                 IndexWithSignal(IndexWithSignal(IndexLoaded, a), b), c))
          /\ lastOp = Op("createSignal", Len(ixKind), c, Undefined)
    /\ Holds(Loaded) /\ NoNodes

NextEdges ==
    \/ \E f \in EdgeFns(Index) :
          Cardinality(Contexts) < EdgeContexts /\ IndexCreateEffect(f)
    \/ \E f \in IndexMemoFns(Index) :
          Cardinality(Contexts) < EdgeContexts /\ IndexCreateMemo(f)
    \/ \E s \in DOMAIN ixKind, v \in Values : IndexSet(s, v)

SpecEdges == InitEdges /\ [][NextEdges]_vars

\* SpecConverge: programs over two signals whose effects write signals.
ConvergeComputations == 1

\* the functions given to createEffect: x(), and x() followed by
\* setY(x() + 1), always or if x() is 0
WritingFns(R) ==
    {<<Step("read", x, "any")>> : x \in Readable(R)}
        \cup {<<Step("read", x, "any"), Step("write", y, c)>> :
                 x \in Readable(R), y \in SignalsOf(R), c \in {"any", "else"}}

InitConverge ==
    /\ \E a \in Values, b \in Values :
          /\ Holds(WithSignal(WithSignal(Loaded, a, "none"), b, "none"))
          /\ lastOp = Op("createSignal", Len(kind), b, Undefined)
    /\ NoNodes /\ NoContexts

NextConverge ==
    \/ \E f \in TrackedFns(Runtime) :
          /\ Cardinality(Memos(Runtime) \cup EffectsOf(Runtime)) < ConvergeComputations
          /\ CreateMemo(f, "none")
    \/ \E f \in WritingFns(Runtime) :
          /\ Cardinality(Memos(Runtime) \cup EffectsOf(Runtime)) < ConvergeComputations
          /\ CreateEffect(f)
    \/ \E s \in Nodes(Runtime), v \in Values : Write(s, v)
    \/ \E m \in Nodes(Runtime) : Read(m)

SpecConverge == InitConverge /\ [][NextConverge]_vars

\* SpecRepeat: programs over two signals whose compute functions call up to
\* MaxReads getters in any order, the same getter more than once included.
RepeatComputations == 1

RepeatFns(R) == SeqsUpTo({Step("read", n, "any") : n \in Readable(R)}, MaxReads)

InitRepeat ==
    /\ \E a \in Values, b \in Values :
          /\ Holds(WithSignal(WithSignal(Loaded, a, "none"), b, "none"))
          /\ lastOp = Op("createSignal", Len(kind), b, Undefined)
    /\ NoNodes /\ NoContexts

NextRepeat ==
    \/ \E f \in RepeatFns(Runtime) :
          /\ Cardinality(Memos(Runtime) \cup EffectsOf(Runtime)) < RepeatComputations
          /\ CreateMemo(f, "none")
    \/ \E f \in RepeatFns(Runtime) :
          /\ Cardinality(Memos(Runtime) \cup EffectsOf(Runtime)) < RepeatComputations
          /\ CreateEffect(f)
    \/ \E s \in Nodes(Runtime), v \in Values : Write(s, v)
    \/ \E m \in Nodes(Runtime) : Read(m)

SpecRepeat == InitRepeat /\ [][NextRepeat]_vars

\* SpecExits: the calls that set and restore the running computation, of
\* either file.  A behaviour runs one of the files: the programs of SpecThrow
\* over src/signals.ts, or a program over src/index.ts that creates two
\* signals and then memos and effects.
ExitContexts == 1

InitExits ==
    \/ InitThrow
    \/ InitIndex

NextExits ==
    \/ NextThrow
    \/ \E f \in IndexEffectFns(Index) :
          /\ ixKind # <<>>
          /\ Cardinality(Contexts) < ExitContexts
          /\ IndexCreateEffect(f)
    \/ \E f \in IndexMemoFns(Index) :
          /\ ixKind # <<>>
          /\ Cardinality(Contexts) < ExitContexts
          /\ IndexCreateMemo(f)
    \/ \E s \in DOMAIN ixKind, v \in Values : IndexSet(s, v)

SpecExits == InitExits /\ [][NextExits]_vars

(***************************************************************************)
(* What the claims speak of.                                               *)
(***************************************************************************)
\* the value of node n as its compute function gives it on the current
\* values of the signals: fn evaluated without the runtime's caches
RECURSIVE Expected(_, _), ExpectedSteps(_, _, _, _, _)
ExpectedSteps(R, f, i, first, acc) ==
    IF i > Len(f) THEN acc
    ELSE IF ~Taken(f[i], first) THEN ExpectedSteps(R, f, i + 1, first, acc)
    ELSE LET v == Expected(R, f[i].n)
         IN ExpectedSteps(R, f, i + 1, IF i = 1 THEN v ELSE first, Combine(acc, v))

Expected(R, n) ==
    IF R.kind[n] = "signal" THEN R.value[n] ELSE ExpectedSteps(R, R.fn[n], 1, 0, 0)

\* how many times computation c started its compute function in trace t
Runs(t, c) == Cardinality({i \in DOMAIN t : t[i].c = c})

\* s is a signal, a and b are memos over s alone, e is an effect over a and b
Diamond(s, a, b, e) ==
    /\ kind[s] = "signal"
    /\ kind[a] = "memo" /\ kind[b] = "memo" /\ a # b
    /\ Named(fn[a]) = {s} /\ Named(fn[b]) = {s}
    /\ kind[e] = "effect" /\ Named(fn[e]) = {a, b}

\* no effect reads memo m, directly or through other memos
RECURSIVE ReadBy(_, _)
ReadBy(c, m) ==
    \/ m \in Named(fn[c])
    \/ \E x \in Named(fn[c]) : kind[x] = "memo" /\ ReadBy(x, m)

Unobserved(m) == \A e \in EffectsOf(Runtime) : ~ReadBy(e, m)

\* C1: a call of a memo's getter returns the memo's compute function
\* evaluated on the current values of what it reads.
C1_GetterIsCurrent ==
    lastOp.op = "read" => lastOp.ret = Expected(Runtime, lastOp.n)

\* C2: in a diamond, one write to s that changes a and b runs the body of e
\* exactly once and the compute functions of a and b at most once each,
\* before the write returns.
C2_DiamondRunsOnce ==
    [][\A s, a, b, e \in Nodes(Runtime) :
          ( /\ Diamond(s, a, b, e)
            /\ lastOp'.op = "write" /\ lastOp'.n = s
            /\ Expected(Runtime, a) # Expected(Runtime', a)
            /\ Expected(Runtime, b) # Expected(Runtime', b) )
          => ( /\ Runs(trace', e) = 1
               /\ Runs(trace', a) <= 1
               /\ Runs(trace', b) <= 1 )]_vars

\* C3: within the propagation of one write no effect body starts while a
\* memo is STALE or in the middle of its compute function.
C3_MemosBeforeEffects ==
    lastOp.op = "write" =>
        \A i \in DOMAIN trace : kind[trace[i].c] = "effect" => trace[i].stale = {}

\* C4: a write to a signal that a memo read by no effect depends on does not
\* call the memo's compute function, and the call of its getter that follows
\* such writes calls it exactly once.
C4_Lazy ==
    [][\A m \in Memos(Runtime) :
          Unobserved(m) =>
              /\ (lastOp'.op = "write" /\ ReadBy(m, lastOp'.n))
                     => Runs(trace', m) = 0
              /\ ( /\ lastOp.op = "write" /\ ReadBy(m, lastOp.n)
                   /\ lastOp'.op = "read" /\ lastOp'.n = m )
                     => Runs(trace', m) = 1]_vars

\* C8: a signal created without a comparator takes a write of the value it
\* already holds as no change: no effect body and no compute function runs.
C8_DefaultIsIdentity ==
    [][( /\ lastOp'.op = "write"
         /\ comparator[lastOp'.n] = "none"
         /\ value[lastOp'.n] = lastOp'.v )
       => trace' = <<>>]_vars


\* the entries of an array, null having none
Entries(arr) == IF arr = Null THEN {} ELSE {arr[i] : i \in DOMAIN arr}

Computations == Memos(Runtime) \cup EffectsOf(Runtime)

\* the last run of computation c read node n outside untrack(), directly or
\* through the memos it read
RECURSIVE DependsOn(_, _)
DependsOn(c, n) ==
    \/ n \in lastRead[c]
    \/ \E x \in lastRead[c] : kind[x] = "memo" /\ DependsOn(x, n)

\* C5: once a memo with a changing set of dependencies has recomputed without
\* reading a signal that an earlier run read, a write to that signal does not
\* call the memo's compute function.
C5_DroppedSourceIsSilent ==
    [][\A m \in Memos(Runtime) :
          ( /\ lastOp'.op = "write"
            /\ lastOp'.n \in everRead[m]
            /\ ~DependsOn(m, lastOp'.n) )
          => Runs(trace', m) = 0]_vars

\* a write to a signal that the memo's compute function read before the flag
\* was switched and did not read since has returned
C5_Witness ==
    /\ lastOp.op = "write"
    /\ \E m \in Memos(Runtime) :
          /\ lastOp.n \in everRead[m] /\ ~DependsOn(m, lastOp.n)
          /\ value[fn[m][1].n] # 0
          /\ lastOp.n = fn[m][3].n
          /\ Runs(trace, m) = 0

\* C6: a write to a signal that a computation has read only inside untrack()
\* does not run the computation, and the sources of a computation and the
\* observers of a signal hold only what was read outside untrack().
C6_UntrackedIsIsolated ==
    [][/\ \A c \in Computations :
             ( /\ lastOp'.op = "write"
               /\ lastOp'.n \in untracked[c] \ everRead[c]
               /\ ~DependsOn(c, lastOp'.n) )
             => Runs(trace', c) = 0
       /\ \A c \in Computations', n \in Nodes(Runtime') :
             (n \in Entries(sources'[c]) \/ c \in Entries(observers'[n]))
             => n \in lastRead'[c]]_vars

\* a write to a signal that an effect reads inside untrack() only has returned
C6_Witness ==
    /\ lastOp.op = "write"
    /\ \E c \in Computations :
          /\ lastOp.n \in untracked[c] \ everRead[c]
          /\ ~DependsOn(c, lastOp.n)
          /\ lastRead[c] # {}
          /\ Runs(trace, c) = 0
          /\ lastOp.n \notin Entries(sources[c])
          /\ c \notin Entries(observers[lastOp.n])

\* C7: a set whose new value the equality function holds equal to the current
\* one leaves value, version, epoch and every dirty flag as they were
\* (signalSetFn), and runs no computation (write of src/signals.ts with a
\* comparator).
C7_EqualSetChangesNothing ==
    [][/\ ( /\ lastOp'.op = "signalSetFn"
            /\ ~threw'
            /\ Equal(equal[lastOp'.n], nodeValue[lastOp'.n], lastOp'.v) )
          => /\ nodeValue' = nodeValue
             /\ version' = version
             /\ epoch' = epoch
             /\ dirty' = dirty
       /\ ( /\ lastOp'.op = "write"
            /\ Comparator(comparator[lastOp'.n], value[lastOp'.n], lastOp'.v) )
          => /\ trace' = <<>>
             /\ value' = value
             /\ state' = state]_vars

\* a set of a value equal to, and other than, the current one has returned
\* on a signal with a live consumer that is not dirty
C7_Witness ==
    /\ lastOp.op = "signalSetFn" /\ ~threw
    /\ nodeValue[lastOp.n] # lastOp.v
    /\ Equal(equal[lastOp.n], nodeValue[lastOp.n], lastOp.v)
    /\ \E c \in Entries(liveConsumerNode[lastOp.n]) : ~dirty[c]

\* C9: signalSetFn raises exactly when there is an active consumer whose
\* consumerAllowSignalWrites is false, whatever the new value, and then
\* changes nothing.
C9_WriteInConsumerRaises ==
    [][lastOp'.op = "signalSetFn" =>
          /\ threw' <=> (activeConsumer # 0 /\ ~consumerAllowSignalWrites[activeConsumer])
          /\ threw' => /\ nodeValue' = nodeValue
                       /\ version' = version
                       /\ epoch' = epoch
                       /\ dirty' = dirty]_vars

\* a set of the value the signal holds has raised
C9_Witness ==
    /\ lastOp.op = "signalSetFn" /\ threw
    /\ nodeValue[lastOp.n] = lastOp.v
    /\ activeConsumer # 0

AtRead(r) == [kind |-> ixKind, fn |-> ixFn, value |-> r.value]

\* C12: no execute() of an effect starts while an execute() of the same
\* effect is on the stack: a write made inside an effect body to a signal the
\* body has read does not run the body again.
C12_NoReentry == ~reentered

\* C13: every memo getter that an effect body calls returns the memo's
\* function evaluated on the signal values of that time.
C13_GlitchFree ==
    \A i \in DOMAIN ixReads :
        (ixKind[ixReads[i].e] = "effect" /\ ixKind[ixReads[i].n] = "memo")
            => ixReads[i].ret = Expected(AtRead(ixReads[i]), ixReads[i].n)


\* C14: a run of a compute function that throws in updateComputation leaves
\* the computation STALE with the computation.value it had before the run,
\* and a call of the getter of a STALE memo runs its compute function.
C14_FailedRunRetried ==
    [][/\ \A r \in failed' : state'[r.c] = STALE /\ cvalue'[r.c] = r.value
       /\ (lastOp'.op = "read" /\ state[lastOp'.n] = STALE)
              => \E i \in DOMAIN trace' : trace'[i].c = lastOp'.n]_vars

\* the getter of a memo whose last run failed is called, runs the compute
\* function again, and that run fails too
C14_Witness ==
    /\ lastOp.op = "read"
    /\ \E r \in failed : r.c = lastOp.n /\ r.value # Undefined
    /\ \E i \in DOMAIN trace : trace[i].c = lastOp.n


\* C15: after a call that threw, a computation whose run the exception
\* aborted has none of the signals it read in that run in its sources, and is
\* in the observers of none of them.
C15_FailedEdgesDiscarded ==
    \A r \in failed :
        \A s \in lastRead[r.c] :
            s \notin Entries(sources[r.c]) /\ r.c \notin Entries(observers[s])


\* the number of times x occurs in the array arr
Occurrences(arr, x) ==
    IF arr = Null THEN 0 ELSE Cardinality({i \in DOMAIN arr : arr[i] = x})

\* C16: a signal or memo that the last run of a computation read, however
\* often, occurs once in the computation's sources, and the computation
\* occurs once in its observers.
C16_OneEdgePerSource ==
    \A c \in Computations :
        \A n \in lastRead[c] :
            Occurrences(sources[c], n) = 1 /\ Occurrences(observers[n], c) = 1


\* the live consumers of the nodes of S
LiveConsumers(S) == UNION {Entries(liveConsumerNode[x]) : x \in S}

RECURSIVE Closure(_)
Closure(S) ==
    LET T == S \cup LiveConsumers(S)
    IN IF T = S THEN S ELSE Closure(T)

\* the nodes reachable from n through one or more live-consumer edges
Reachable(n) == Closure(LiveConsumers({n}))

DirtyNodes == {x \in DOMAIN dirty : dirty[x]}

\* producerNotifyConsumers(n) is called while no node is dirty
NotifiesClean ==
    lastOp'.op = "producerNotifyConsumers" /\ DirtyNodes = {}

\* C17: called while no node is dirty, producerNotifyConsumers(n) returns
\* with exactly the nodes dirty that are reachable from n through one or more
\* live-consumer edges, n itself among them when it lies on a cycle; it
\* passes each node to consumerMarkDirty at most once and changes nothing else.
C17_NotifyMarksReachable ==
    [][NotifiesClean =>
          /\ DirtyNodes' = Reachable(lastOp'.n)
          /\ \A x \in DOMAIN dirty : Occurrences(marked', x) <= 1
          /\ UNCHANGED <<nodeValue, version, liveConsumerNode, epoch,
                         inNotificationPhase>>]_vars

\* C17 as stated: the same, and n itself is left as it was
C17_StartNodeUnchanged ==
    [][NotifiesClean =>
          /\ DirtyNodes' = Reachable(lastOp'.n)
          /\ dirty'[lastOp'.n] = dirty[lastOp'.n]
          /\ \A x \in DOMAIN dirty : Occurrences(marked', x) <= 1
          /\ UNCHANGED <<nodeValue, version, liveConsumerNode, epoch,
                         inNotificationPhase>>]_vars

\* producerNotifyConsumers(n) has returned, n lies on a cycle and is dirty,
\* every node is dirty and was marked by this call, and one of them is a live
\* consumer of two nodes
C17_Witness ==
    /\ lastOp.op = "producerNotifyConsumers"
    /\ dirty[lastOp.n]
    /\ DirtyNodes = DOMAIN dirty
    /\ Entries(marked) = DirtyNodes
    /\ \E x \in DOMAIN dirty, y \in DOMAIN dirty, z \in DOMAIN dirty :
          x # y /\ z \in Entries(liveConsumerNode[x])
                /\ z \in Entries(liveConsumerNode[y])


\* C18: while no effect is running, an effect is in the subscriptions of a
\* signal exactly if the signal is in the effect's dependencies, and the
\* signals in its dependencies are those whose getters its most recent run
\* called (the run that started last, or the one that ended last).
C18_EdgesExact ==
    context = <<>> =>
        \A e \in Contexts :
            /\ \A s \in DOMAIN ixKind :
                  e \in Entries(subscriptions[s]) <=> s \in dependencies[e]
            /\ \/ dependencies[e] = ixLastRead[e]
               \/ dependencies[e] = ixLastEnded[e]



\* C19: a top-level write to a signal that is accepted (the comparator does
\* not hold the new value equal to the current one) runs the body of every
\* effect that has the signal in its sources, before the write returns.
C19_EffectKeepsReacting ==
    [][\A e \in EffectsOf(Runtime) :
          ( /\ lastOp'.op = "write"
            /\ lastOp'.n \in Entries(sources[e])
            /\ ~Comparator(comparator[lastOp'.n], value[lastOp'.n], lastOp'.v) )
          => Runs(trace', e) >= 1]_vars


\* C20: after a top-level write that returned normally every computation is
\* CLEAN, and every signal that the last run of an effect read has the value
\* the effect was given.
C20_Converges ==
    (lastOp.op = "write" /\ ~thrown) =>
        /\ \A c \in Computations : state[c] = CLEAN
        /\ \A e \in EffectsOf(Runtime) :
              \A p \in seen[e] : kind[p[1]] = "signal" => value[p[1]] = p[2]

=============================================================================
